---- MODULE Spec2Model ----
(***************************************************************************)
(* Open-loop islanded inverter application for the OwnVerter board         *)
(* (src/src/main.cpp): the critical control task, the two background tasks *)
(* and the state they share.                                               *)
(*                                                                         *)
(* Number representation (float32 in the source, integers here):           *)
(*   - duty cycles and duty_amplitude are in hundredths (0.05 is 5);       *)
(*   - frequencies are in Hz;                                              *)
(*   - angles are in units of 2*pi*T_control radians, the angle travelled  *)
(*     in one control period at 1 Hz, so that omega*T_control is v_freq    *)
(*     units and one revolution is 1/T_control = 10000 units;              *)
(*   - measurements are integers, NO_VALUE is the sensor API's sentinel.   *)
(***************************************************************************)
EXTENDS Integers, Sequences, FiniteSets

(* ------------------------- bounds of the model ------------------------- *)
\* control_task invocations explored
MaxCycles == 5
\* 'u' / 'j' presses away from the initial amplitude that are explored (the
\* amplitude is negative after one 'j')
MaxAmpSteps == 1
\* 'f' presses above the initial frequency that are explored
MaxFreqUp == 1
\* 'v' presses below the initial frequency that are explored when the operator
\* only changes the frequency (v_freq becomes negative after 6)
MaxFreqDown == 6

(* -------------------------- program constants -------------------------- *)
T_control_micro == 100
FILTER_TAU_MICRO == 5000
v_freq_init == 50
freq_increment == 10
duty_offset == 0
duty_increment == 5
IDLE_MODE == 0
POWER_MODE == 1
NO_VALUE == -10000

\* one revolution (2*pi) in angle units: 1 s / T_control
TWO_PI == 1000000 \div T_control_micro
\* duty 1.0 in hundredths
DUTY_FULL == 20 * duty_increment
\* a sample that moves the low-pass filter by one unit in one period
SAMPLE_LSB == (T_control_micro + FILTER_TAU_MICRO) \div T_control_micro

Legs == <<"LEG1", "LEG2", "LEG3">>
Channels == {"I1_LOW", "I2_LOW", "I3_LOW", "I_HIGH", "V_HIGH"}
Keys == {"h", "i", "p", "u", "j", "f", "v", "x"}
\* What getLatestValue can return: no new sample, or one of two values.
Samples == {NO_VALUE, 0, SAMPLE_LSB}

VARIABLES
    mode,            \* user-requested mode
    power_enable,    \* PWM activation state
    v_freq,          \* inverter voltage frequency
    v_angle,         \* inverter voltage angle
    duty_amplitude,  \* amplitude of the duty cycle
    duty_a, duty_b, duty_c,
    Ia, Ib, Ic, I_high, V_high,
    V_high_filt,     \* low-pass filtered V_high (also the filter's state)
    led,             \* board LED
    sampled,         \* history: the mode read by each control_task invocation
    calls,           \* history: the power-stage driver calls, in order
    cycle,           \* history: the latest control_task invocation (the mode and
                     \* amplitude it read, power_enable before and after, its
                     \* driver calls, what the sensor interface returned)
    latest,          \* history: per channel, the last numeric sample returned
    angle_start,     \* history: v_angle at startup
    unwrapped,       \* history: the angle integrated without the wrap
    processed,       \* history: 'u' less 'j' and 'f' less 'v' keys processed
    ui,              \* user_interface_task: the case it is executing and the
                     \* value it has loaded for the update
    boot             \* setup_routine: the calls it has made, in order

vars == <<mode, power_enable, v_freq, v_angle, duty_amplitude,
          duty_a, duty_b, duty_c, Ia, Ib, Ic, I_high, V_high, V_high_filt,
          led, sampled, calls, cycle, latest,
          angle_start, unwrapped, processed, ui, boot>>

(* ------------------------------ helpers -------------------------------- *)
\* Mutant: the sample is stored without the NO_VALUE test.
HoldLast_Unchecked(stored, meas_data) == meas_data

\* if (meas_data != NO_VALUE) { X = meas_data; }
HoldLast(stored, meas_data) == IF meas_data # NO_VALUE THEN meas_data ELSE stored

\* Mutant: the tasks are created and started before the board is initialised.
SetupCalls_TasksFirst ==
    <<"led.turnOn",
      "createBackground(status_display_task)",
      "createBackground(user_interface_task)",
      "createCritical(control_task)",
      "startBackground(status_display_task)",
      "startBackground(user_interface_task)",
      "startCritical",
      "initBuck", "enableDefaultOwnverterSensors">>

\* The calls of setup_routine, in order.
SetupCalls ==
    <<"led.turnOn", "initBuck", "enableDefaultOwnverterSensors",
      "createBackground(status_display_task)",
      "createBackground(user_interface_task)",
      "createCritical(control_task)",
      "startBackground(status_display_task)",
      "startBackground(user_interface_task)",
      "startCritical">>

\* user_interface_task waiting in console_getchar()
UiIdle == [pc |-> "getchar", reg |-> 0]

\* LowPassFirstOrderFilter(T_control, 5 ms).calculateWithReturn(u), previous
\* output y: y + (u - y) * Ts / (Ts + tau)
calculateWithReturn(y, u) ==
    y + ((u - y) * T_control_micro) \div (T_control_micro + FILTER_TAU_MICRO)

\* ot_modulo_2pi: wrap an angle into [0, 2*pi)
ot_modulo_2pi(theta) == theta % TWO_PI

\* Mutant: a conditional subtraction in place of the modulo.
NextAngle_CondSub(angle, freq) ==
    IF angle + freq >= TWO_PI THEN angle + freq - TWO_PI ELSE angle + freq

\* Mutant: the angle is integrated without the modulo.
NextAngle_NoWrap(angle, freq) == angle + freq

\* v_angle = ot_modulo_2pi(v_angle + omega*T_control), omega = 2*PI*v_freq
NextAngle(angle, freq) == ot_modulo_2pi(angle + freq)

\* Mutant: the duty cycle is clamped to [0, 1].
ComputeDuty_Clamped(amplitude) ==
    IF duty_offset + amplitude < 0 THEN 0
    ELSE IF duty_offset + amplitude > DUTY_FULL THEN DUTY_FULL
    ELSE duty_offset + amplitude

\* duty_x = duty_offset + duty_amplitude
ComputeDuty(amplitude) == duty_offset + amplitude

\* Mutant: the third leg is computed from the amplitude of the cycle before.
ComputeDuties_Stale(amplitude) ==
    <<ComputeDuty(amplitude), ComputeDuty(amplitude),
      ComputeDuty(cycle.amplitude)>>

\* duty_a, duty_b, duty_c of compute_duties
ComputeDuties(amplitude) ==
    <<ComputeDuty(amplitude), ComputeDuty(amplitude), ComputeDuty(amplitude)>>

\* Mutant: the filter is fed what the sensor returned, sentinel included.
FilterStep_MeasData(filt, stored, meas_data) ==
    calculateWithReturn(filt, meas_data)

\* V_high_filt = vHigh_filter.calculateWithReturn(V_high), with the stored
\* V_high; meas_data is what getLatestValue(V_HIGH) returned
FilterStep(filt, stored, meas_data) == calculateWithReturn(filt, stored)

SetDuty(leg, value) == <<"setDutyCycle", leg, value>>
Start == <<"start", "ALL">>
Stop == <<"stop", "ALL">>

\* Mutant: start is issued in every POWER cycle.
ModeCalls_LevelStart(m, enabled, da, db, dc) ==
    IF m = IDLE_MODE
    THEN IF enabled THEN <<Stop>> ELSE <<>>
    ELSE IF m = POWER_MODE
         THEN <<SetDuty(Legs[1], da), SetDuty(Legs[2], db), SetDuty(Legs[3], dc),
                Start>>
         ELSE <<>>

\* Mutant: start is issued before the duty cycles are set.
ModeCalls_StartFirst(m, enabled, da, db, dc) ==
    IF m = IDLE_MODE
    THEN IF enabled THEN <<Stop>> ELSE <<>>
    ELSE IF m = POWER_MODE
         THEN (IF ~enabled THEN <<Start>> ELSE <<>>)
              \o <<SetDuty(Legs[1], da), SetDuty(Legs[2], db), SetDuty(Legs[3], dc)>>
         ELSE <<>>

\* Mutant: stop is issued in every IDLE cycle.
ModeCalls_LevelStop(m, enabled, da, db, dc) ==
    IF m = IDLE_MODE
    THEN <<Stop>>
    ELSE IF m = POWER_MODE
         THEN <<SetDuty(Legs[1], da), SetDuty(Legs[2], db), SetDuty(Legs[3], dc)>>
              \o (IF ~enabled THEN <<Start>> ELSE <<>>)
         ELSE <<>>

\* The driver calls of the POWER/IDLE management of control_task, in order.
ModeCalls(m, enabled, da, db, dc) ==
    IF m = IDLE_MODE
    THEN IF enabled THEN <<Stop>> ELSE <<>>
    ELSE IF m = POWER_MODE
         THEN <<SetDuty(Legs[1], da), SetDuty(Legs[2], db), SetDuty(Legs[3], dc)>>
              \o (IF ~enabled THEN <<Start>> ELSE <<>>)
         ELSE <<>>

\* Mutant: the IDLE branch leaves power_enable as it is.
ModeEnable_NoClear(m, enabled) == IF m = POWER_MODE THEN TRUE ELSE enabled

\* Mutant: the POWER branch toggles power_enable.
ModeEnable_Toggle(m, enabled) == IF m = POWER_MODE THEN ~enabled ELSE FALSE

\* Mutant: the POWER branch leaves power_enable as it is.
ModeEnable_NoSet(m, enabled) == IF m = IDLE_MODE THEN FALSE ELSE enabled

\* power_enable after the POWER/IDLE management of control_task.
ModeEnable(m, enabled) ==
    IF m = IDLE_MODE THEN FALSE
    ELSE IF m = POWER_MODE THEN TRUE
    ELSE enabled

\* A call as the history `calls` keeps it: without the duty value.
CallName(c) == <<c[1], c[2]>>
CallNames(cs) == [i \in 1..Len(cs) |-> CallName(cs[i])]

(* ----------------------------- initial state --------------------------- *)
\* The state with the static initialisers, the angle being angle0 and
\* setup_routine having made the calls done.
StartState(angle0, done) ==
    /\ mode = IDLE_MODE
    /\ power_enable = FALSE
    /\ v_freq = v_freq_init
    /\ v_angle = angle0
    /\ duty_amplitude = 0
    /\ duty_a = 0 /\ duty_b = 0 /\ duty_c = 0
    /\ Ia = 0 /\ Ib = 0 /\ Ic = 0 /\ I_high = 0 /\ V_high = 0
    /\ V_high_filt = 0
    /\ led = (Len(done) >= 1)
    /\ sampled = <<>>
    /\ calls = <<>>
    /\ cycle = [mode |-> IDLE_MODE, enabled_before |-> FALSE,
                enabled_after |-> FALSE, amplitude |-> 0, calls |-> <<>>,
                ret |-> [ch \in Channels |-> NO_VALUE],
                preempted |-> "getchar"]
    /\ latest = [ch \in Channels |-> 0]
    /\ angle_start = angle0
    /\ unwrapped = angle0
    /\ processed = [amp |-> 0, freq |-> 0]
    /\ ui = UiIdle
    /\ boot = done

\* The state when setup_routine has returned.
Init == StartState(0, SetupCalls)

(* ------------------------------ control task --------------------------- *)
\* One invocation of control_task; ret[ch] is what getLatestValue(ch) returns.
\* The critical task preempts the background tasks and is not preempted.
ControlCycle(ret) ==
    \* read_measurements()
    /\ Ia' = HoldLast(Ia, ret["I1_LOW"])
    /\ Ib' = HoldLast(Ib, ret["I2_LOW"])
    /\ Ic' = HoldLast(Ic, ret["I3_LOW"])
    /\ I_high' = HoldLast(I_high, ret["I_HIGH"])
    /\ V_high' = HoldLast(V_high, ret["V_HIGH"])
    /\ V_high_filt' = FilterStep(V_high_filt, V_high', ret["V_HIGH"])
    \* compute_duties()
    /\ v_angle' = NextAngle(v_angle, v_freq)
    /\ duty_a' = ComputeDuties(duty_amplitude)[1]
    /\ duty_b' = ComputeDuties(duty_amplitude)[2]
    /\ duty_c' = ComputeDuties(duty_amplitude)[3]
    \* manage POWER/IDLE modes
    /\ power_enable' = ModeEnable(mode, power_enable)
    /\ cycle' = [mode |-> mode, enabled_before |-> power_enable,
                 enabled_after |-> power_enable',
                 amplitude |-> duty_amplitude,
                 calls |-> ModeCalls(mode, power_enable, duty_a', duty_b', duty_c'),
                 ret |-> ret,
                 preempted |-> ui.pc]
    /\ calls' = calls \o CallNames(cycle'.calls)
    /\ sampled' = Append(sampled, mode)
    /\ latest' = [ch \in Channels |->
                    IF ret[ch] # NO_VALUE THEN ret[ch] ELSE latest[ch]]
    /\ unwrapped' = unwrapped + v_freq
    /\ UNCHANGED <<mode, v_freq, duty_amplitude, led,
                   angle_start, processed, ui, boot>>

\* One of the control_task invocations that are explored.
ControlTask(ret) ==
    /\ Len(sampled) < MaxCycles
    /\ ControlCycle(ret)

\* The sensor interface returns, channel by channel, a sample or NO_VALUE.
SensorReturns == [Channels -> Samples]
\* The channels are converted together: all have the same new sample, or none
\* has one.
BurstReturns == {[ch \in Channels |-> s] : s \in {NO_VALUE, SAMPLE_LSB}}

control_task == \E ret \in BurstReturns : ControlTask(ret)
control_task_sensors == \E ret \in SensorReturns : ControlTask(ret)

(* --------------------------- background tasks -------------------------- *)
\* The keys processed, once key c has been.
Processed(c) ==
    [amp |-> processed.amp + (CASE c = "u" -> 1 [] c = "j" -> -1 [] OTHER -> 0),
     freq |-> processed.freq + (CASE c = "f" -> 1 [] c = "v" -> -1 [] OTHER -> 0)]

\* Mutant: the 'i' key also clears power_enable.
KeyPress_IdleDisables(c) ==
    /\ mode' = CASE c = "i" -> IDLE_MODE
                 [] c = "p" -> POWER_MODE
                 [] OTHER -> mode
    /\ duty_amplitude' = CASE c = "u" -> duty_amplitude + duty_increment
                           [] c = "j" -> duty_amplitude - duty_increment
                           [] OTHER -> duty_amplitude
    /\ v_freq' = CASE c = "f" -> v_freq + freq_increment
                   [] c = "v" -> v_freq - freq_increment
                   [] OTHER -> v_freq
    /\ power_enable' = IF c = "i" THEN FALSE ELSE power_enable
    /\ processed' = Processed(c)
    /\ UNCHANGED <<v_angle, duty_a, duty_b, duty_c,
                   Ia, Ib, Ic, I_high, V_high, V_high_filt, led,
                   sampled, calls, cycle, latest,
                   angle_start, unwrapped, ui, boot>>

\* Mutant: the 'p' key restarts the phase angle from zero.
KeyPress_ResetAngle(c) ==
    /\ mode' = CASE c = "i" -> IDLE_MODE
                 [] c = "p" -> POWER_MODE
                 [] OTHER -> mode
    /\ v_angle' = IF c = "p" THEN 0 ELSE v_angle
    /\ duty_amplitude' = CASE c = "u" -> duty_amplitude + duty_increment
                           [] c = "j" -> duty_amplitude - duty_increment
                           [] OTHER -> duty_amplitude
    /\ v_freq' = CASE c = "f" -> v_freq + freq_increment
                   [] c = "v" -> v_freq - freq_increment
                   [] OTHER -> v_freq
    /\ processed' = Processed(c)
    /\ UNCHANGED <<power_enable, duty_a, duty_b, duty_c,
                   Ia, Ib, Ic, I_high, V_high, V_high_filt, led,
                   sampled, calls, cycle, latest,
                   angle_start, unwrapped, ui, boot>>

\* Mutant: the 'p' key is refused while the amplitude is negative.
KeyPress_Interlock(c) ==
    /\ mode' = CASE c = "i" -> IDLE_MODE
                 [] c = "p" /\ duty_amplitude >= 0 -> POWER_MODE
                 [] OTHER -> mode
    /\ duty_amplitude' = CASE c = "u" -> duty_amplitude + duty_increment
                           [] c = "j" -> duty_amplitude - duty_increment
                           [] OTHER -> duty_amplitude
    /\ v_freq' = CASE c = "f" -> v_freq + freq_increment
                   [] c = "v" -> v_freq - freq_increment
                   [] OTHER -> v_freq
    /\ processed' = Processed(c)
    /\ UNCHANGED <<power_enable, v_angle, duty_a, duty_b, duty_c,
                   Ia, Ib, Ic, I_high, V_high, V_high_filt, led,
                   sampled, calls, cycle, latest,
                   angle_start, unwrapped, ui, boot>>

\* One iteration of user_interface_task with console_getchar() = c.
KeyPress(c) ==
    /\ mode' = CASE c = "i" -> IDLE_MODE
                 [] c = "p" -> POWER_MODE
                 [] OTHER -> mode
    /\ duty_amplitude' = CASE c = "u" -> duty_amplitude + duty_increment
                           [] c = "j" -> duty_amplitude - duty_increment
                           [] OTHER -> duty_amplitude
    /\ v_freq' = CASE c = "f" -> v_freq + freq_increment
                   [] c = "v" -> v_freq - freq_increment
                   [] OTHER -> v_freq
    /\ processed' = Processed(c)
    /\ UNCHANGED <<power_enable, v_angle, duty_a, duty_b, duty_c,
                   Ia, Ib, Ic, I_high, V_high, V_high_filt, led,
                   sampled, calls, cycle, latest,
                   angle_start, unwrapped, ui, boot>>

\* The window of reference parameters that is explored: key c is typed only
\* while it keeps duty_amplitude within ampSteps increments of its initial
\* value, and v_freq between freqDown increments below and freqUp increments
\* above its initial value.
InWindow(c, ampSteps, freqDown, freqUp) ==
    /\ c = "u" => duty_amplitude < duty_increment * ampSteps
    /\ c = "j" => duty_amplitude > -(duty_increment * ampSteps)
    /\ c = "f" => v_freq < v_freq_init + freq_increment * freqUp
    /\ c = "v" => v_freq > v_freq_init - freq_increment * freqDown

user_interface_task ==
    \E c \in Keys :
        /\ InWindow(c, MaxAmpSteps, 0, MaxFreqUp)
        /\ KeyPress(c)

\* The operator only changes the frequency.
user_interface_task_freq ==
    \E c \in {"f", "v", "h", "x"} :
        /\ InWindow(c, 0, MaxFreqDown, MaxFreqUp)
        /\ KeyPress(c)

\* The operator leaves the settings alone.
user_interface_task_quiet == \E c \in {"h", "x"} : KeyPress(c)

\* The mode keys and the two keys that change nothing.
user_interface_task_modes == \E c \in {"i", "p", "h", "x"} : KeyPress(c)

status_display_task ==
    /\ led' = IF mode = IDLE_MODE THEN TRUE
              ELSE IF mode = POWER_MODE THEN ~led
              ELSE led
    /\ UNCHANGED <<mode, power_enable, v_freq, v_angle, duty_amplitude,
                   duty_a, duty_b, duty_c, Ia, Ib, Ic, I_high, V_high,
                   V_high_filt, sampled, calls, cycle, latest,
                   angle_start, unwrapped, processed, ui, boot>>

\* Mutant: the compound assignment stores the increment alone.
UpdateValue_Assign(c, reg) ==
    CASE c = "u" -> duty_increment
      [] c = "j" -> -duty_increment
      [] c = "f" -> freq_increment
      [] c = "v" -> -freq_increment

\* What the compound assignment of key c stores, reg being the value it
\* loaded: duty_amplitude +=/-= duty_increment, v_freq +=/-= freq_increment.
UpdateValue(c, reg) ==
    CASE c = "u" -> reg + duty_increment
      [] c = "j" -> reg - duty_increment
      [] c = "f" -> reg + freq_increment
      [] c = "v" -> reg - freq_increment

\* user_interface_task in the steps between which control_task can run: the
\* compound assignment of key c has loaded its variable.
user_interface_load(c) ==
    /\ ui.pc = "getchar"
    /\ ui' = [pc |-> c,
              reg |-> IF c \in {"u", "j"} THEN duty_amplitude ELSE v_freq]
    /\ UNCHANGED <<mode, power_enable, v_freq, v_angle, duty_amplitude,
                   duty_a, duty_b, duty_c, Ia, Ib, Ic, I_high, V_high,
                   V_high_filt, led, sampled, calls, cycle, latest,
                   angle_start, unwrapped, processed, boot>>

\* The compound assignment stores its result and the iteration ends.
user_interface_store ==
    /\ ui.pc # "getchar"
    /\ duty_amplitude' = IF ui.pc \in {"u", "j"}
                         THEN UpdateValue(ui.pc, ui.reg)
                         ELSE duty_amplitude
    /\ v_freq' = IF ui.pc \in {"f", "v"}
                 THEN UpdateValue(ui.pc, ui.reg)
                 ELSE v_freq
    /\ processed' = Processed(ui.pc)
    /\ ui' = UiIdle
    /\ UNCHANGED <<mode, power_enable, v_angle, duty_a, duty_b, duty_c,
                   Ia, Ib, Ic, I_high, V_high, V_high_filt, led,
                   sampled, calls, cycle, latest,
                   angle_start, unwrapped, boot>>

\* The keys that assign in one store are processed in one step.
user_interface_task_preempted ==
    \/ \E c \in {"u", "j", "f", "v"} :
          /\ InWindow(c, MaxAmpSteps, 0, MaxFreqUp)
          /\ user_interface_load(c)
    \/ user_interface_store
    \/ \E c \in {"i", "p"} :
          /\ ui.pc = "getchar"
          /\ KeyPress(c)

\* The background tasks do not preempt each other.
status_display_task_coop ==
    /\ ui.pc = "getchar"
    /\ status_display_task

\* main: setup_routine makes its next call.
setup_routine ==
    /\ Len(boot) < Len(SetupCalls)
    /\ boot' = Append(boot, SetupCalls[Len(boot) + 1])
    /\ led' = IF SetupCalls[Len(boot) + 1] = "led.turnOn" THEN TRUE ELSE led
    /\ UNCHANGED <<mode, power_enable, v_freq, v_angle, duty_amplitude,
                   duty_a, duty_b, duty_c, Ia, Ib, Ic, I_high, V_high,
                   V_high_filt, sampled, calls, cycle, latest,
                   angle_start, unwrapped, processed, ui>>

\* setup_routine has made call c.
Called(c) == \E i \in 1..Len(boot) : boot[i] = c

(* ----------------------------- specifications -------------------------- *)
Next ==
    \/ control_task
    \/ user_interface_task
    \/ status_display_task

Spec == Init /\ [][Next]_vars

\* Every channel sampled independently, the operator idle.
NextSensors ==
    \/ control_task_sensors
    \/ user_interface_task_quiet
    \/ status_display_task

SpecSensors == Init /\ [][NextSensors]_vars

\* The operator only changes the frequency, over a window that makes v_freq
\* negative.
NextPhase ==
    \/ control_task
    \/ user_interface_task_freq
    \/ status_display_task

SpecPhase == Init /\ [][NextPhase]_vars

\* The phase generator alone, over more than one period at the initial
\* frequency: no new sample, the operator idle, from a set of angles.
StartAngles ==
    {0, 1, v_freq_init, TWO_PI \div 2, TWO_PI - v_freq_init,
     TWO_PI - v_freq_init + 1, TWO_PI - 1}

InitRev == \E a \in StartAngles : StartState(a, SetupCalls)

control_task_rev ==
    /\ Len(sampled) < TWO_PI \div v_freq_init + MaxCycles
    /\ ControlCycle([ch \in Channels |-> NO_VALUE])

NextRev ==
    \/ control_task_rev
    \/ user_interface_task_quiet
    \/ status_display_task

SpecRev == InitRev /\ [][NextRev]_vars

\* The mode requests: every key of the console, with the sensors silent so
\* that the measurements stay at their initial values.
control_task_held == ControlTask([ch \in Channels |-> NO_VALUE])

NextModes ==
    \/ control_task_held
    \/ user_interface_task
    \/ status_display_task

SpecModes == Init /\ [][NextModes]_vars

\* The control task preempting the user interface in the middle of an update:
\* fewer cycles, each at any point of the user interface task.
control_task_preempting ==
    /\ Len(sampled) + 2 < MaxCycles
    /\ ControlCycle([ch \in Channels |-> NO_VALUE])

NextPreempt ==
    \/ control_task_preempting
    \/ user_interface_task_preempted
    \/ status_display_task_coop

SpecPreempt == Init /\ [][NextPreempt]_vars

\* Startup: setup_routine call by call, each task running once it has been
\* started.
InitSetup == StartState(0, <<>>)

control_task_started ==
    /\ Called("startCritical")
    /\ control_task_held

user_interface_task_started ==
    /\ Called("startBackground(user_interface_task)")
    /\ user_interface_task_modes

status_display_task_started ==
    /\ Called("startBackground(status_display_task)")
    /\ status_display_task

NextSetup ==
    \/ setup_routine
    \/ control_task_started
    \/ user_interface_task_started
    \/ status_display_task_started

SpecSetup == InitSetup /\ [][NextSetup]_vars

\* The bus-voltage filter: the mode keys, and only V_HIGH delivers samples, a
\* step large enough for the filter to keep moving while the value is held.
FilterReturns ==
    {[ch \in Channels |-> IF ch = "V_HIGH" THEN s ELSE NO_VALUE] :
        s \in {NO_VALUE, 0, 2 * SAMPLE_LSB}}

control_task_filter == \E ret \in FilterReturns : ControlTask(ret)

NextFilter ==
    \/ control_task_filter
    \/ user_interface_task_modes
    \/ status_display_task

SpecFilter == Init /\ [][NextFilter]_vars

(* ------------------------------- properties ---------------------------- *)
Count(seq, x) == Cardinality({i \in 1..Len(seq) : seq[i] = x})
IsStartStop(c) == c = Start \/ c = Stop
\* The start(ALL) / stop(ALL) calls made so far, in order.
StartStops == SelectSeq(calls, IsStartStop)
\* The driver calls of the latest control_task invocation that set a duty cycle.
CycleDuties == {i \in 1..Len(cycle.calls) : cycle.calls[i][1] = "setDutyCycle"}
HasRun == Len(sampled) >= 1

\* C1: the start/stop calls alternate and begin with start, and power_enable
\* is true exactly when the last of them is a start.
C1_StartStopAlternate ==
    /\ \A i \in 1..Len(StartStops) :
          StartStops[i] = IF i % 2 = 1 THEN Start ELSE Stop
    /\ power_enable <=>
          (Len(StartStops) >= 1 /\ StartStops[Len(StartStops)] = Start)

\* C1 witness: the stage has been started, stopped and started again.
C1_Witness == Len(StartStops) >= 3 /\ power_enable

PowerCycles == {i \in 1..Len(sampled) : sampled[i] = POWER_MODE}
\* Cycles that read POWER with the stage disabled / IDLE with it enabled.
RisingEdges == {i \in PowerCycles : i = 1 \/ sampled[i - 1] = IDLE_MODE}
FallingEdges ==
    {i \in 2..Len(sampled) : sampled[i] = IDLE_MODE /\ sampled[i - 1] = POWER_MODE}

\* C2: every run of N consecutive POWER cycles from a disabled stage gives one
\* start and N setDutyCycle calls per leg, and the IDLE cycles that follow it
\* give one stop: over the whole history there are as many starts as runs of
\* POWER cycles, as many setDutyCycle calls per leg as POWER cycles, and as
\* many stops as runs of POWER cycles that were followed by an IDLE cycle.
C2_OneStartPerRun ==
    /\ Count(calls, Start) = Cardinality(RisingEdges)
    /\ \A l \in 1..Len(Legs) :
          Count(calls, <<"setDutyCycle", Legs[l]>>) = Cardinality(PowerCycles)
    /\ Count(calls, Stop) = Cardinality(FallingEdges)

\* C2 witness: three POWER cycles, then two IDLE cycles: one start, three
\* setDutyCycle calls per leg, one stop.
C2_Witness ==
    /\ sampled = <<POWER_MODE, POWER_MODE, POWER_MODE, IDLE_MODE, IDLE_MODE>>
    /\ Count(calls, Start) = 1
    /\ Count(calls, <<"setDutyCycle", Legs[1]>>) = 3
    /\ Count(calls, Stop) = 1

\* The operations called so far, in order, setDutyCycle counted once per cycle.
NotRepeatedLeg(c) == c[1] # "setDutyCycle" \/ c[2] = Legs[1]
OpsPerCycle ==
    LET s == SelectSeq(calls, NotRepeatedLeg)
    IN  [i \in 1..Len(s) |-> s[i][1]]
ToggleScenario ==
    sampled = <<IDLE_MODE, POWER_MODE, POWER_MODE, IDLE_MODE, IDLE_MODE>>

\* C3 as stated: the scenario IDLE, POWER, POWER, IDLE, IDLE gives the calls
\* [start, set_duty, set_duty, stop].
C3_Original ==
    ToggleScenario =>
        OpsPerCycle = <<"start", "setDutyCycle", "setDutyCycle", "stop">>

\* C3 as amended: the scenario IDLE, POWER, POWER, IDLE, IDLE gives the calls
\* [set_duty, start, set_duty, stop], with one start and one stop.
C3_ToggleScenario ==
    ToggleScenario =>
        /\ OpsPerCycle = <<"setDutyCycle", "start", "setDutyCycle", "stop">>
        /\ Count(calls, Start) = 1
        /\ Count(calls, Stop) = 1

\* C3 witness: the scenario has run.
C3_Witness == ToggleScenario /\ Len(calls) = 8

\* C4: a cycle that reads POWER with the stage disabled sets the duty cycle of
\* the three legs, then issues start, once, and ends with power_enable true.
C4_DutyBeforeStart ==
    (HasRun /\ cycle.mode = POWER_MODE /\ ~cycle.enabled_before) =>
        /\ Len(cycle.calls) = Len(Legs) + 1
        /\ \A l \in 1..Len(Legs) :
              /\ cycle.calls[l][1] = "setDutyCycle"
              /\ cycle.calls[l][2] = Legs[l]
        /\ cycle.calls[Len(Legs) + 1] = Start
        /\ cycle.enabled_after

\* C4 witness: such a cycle after the stage had been stopped.
C4_Witness ==
    /\ HasRun /\ cycle.mode = POWER_MODE /\ ~cycle.enabled_before
    /\ Count(calls, Stop) >= 1

\* C5 as stated: every duty cycle passed to setDutyCycle lies in [0, 1].
C5_DutyWithinUnit ==
    \A i \in CycleDuties : cycle.calls[i][3] \in 0..DUTY_FULL

\* C6: the phase angle lies in [0, 2*pi).
C6_AngleWrapped == v_angle >= 0 /\ v_angle < TWO_PI

\* C6 witness: a negative frequency has taken the angle below zero and the
\* angle has been wrapped to just under 2*pi.
C6_Witness ==
    /\ HasRun
    /\ v_freq < 0
    /\ v_angle = TWO_PI + v_freq

Stored(ch) ==
    CASE ch = "I1_LOW" -> Ia
      [] ch = "I2_LOW" -> Ib
      [] ch = "I3_LOW" -> Ic
      [] ch = "I_HIGH" -> I_high
      [] ch = "V_HIGH" -> V_high

\* C7: each channel holds the last numeric sample the sensor interface
\* returned for it (its initial value before the first one), however many
\* NO_VALUE it returned since and whatever the other channels received.
C7_HoldLastValue == \A ch \in Channels : Stored(ch) = latest[ch]

\* C7 witness: in the same cycle one channel was overwritten, with a value
\* other than the one it held, while another got NO_VALUE and holds a sample
\* of an earlier cycle.
C7_Witness ==
    /\ Len(sampled) >= 3
    /\ cycle.ret["V_HIGH"] = NO_VALUE /\ V_high = SAMPLE_LSB
    /\ cycle.ret["I_HIGH"] = 0 /\ I_high = 0
    /\ cycle.ret["I1_LOW"] = SAMPLE_LSB /\ Ia = SAMPLE_LSB
    /\ V_high_filt > 0

\* C8: a cycle that reads POWER calls setDutyCycle once for each leg; a cycle
\* that reads IDLE calls neither setDutyCycle nor start, and calls nothing
\* when the stage is disabled.
C8_CallsPerCycle ==
    HasRun =>
        /\ cycle.mode = POWER_MODE =>
              \A l \in 1..Len(Legs) :
                  Cardinality({i \in CycleDuties : cycle.calls[i][2] = Legs[l]}) = 1
        /\ cycle.mode = IDLE_MODE =>
              /\ CycleDuties = {}
              /\ \A i \in 1..Len(cycle.calls) : cycle.calls[i] # Start
              /\ ~cycle.enabled_before => cycle.calls = <<>>

\* C8 witness: an IDLE cycle with the stage disabled, after a stop.
C8_Witness ==
    /\ HasRun /\ cycle.mode = IDLE_MODE /\ ~cycle.enabled_before
    /\ Count(calls, Stop) >= 1

\* C9: a step of a background task (a step that is no control_task
\* invocation) leaves power_enable, the angle, the duty cycles, the
\* measurements and the filtered value unchanged, and calls no driver
\* operation.
C9_BackgroundFrame ==
    [][sampled' = sampled =>
          UNCHANGED <<power_enable, v_angle, duty_a, duty_b, duty_c,
                      Ia, Ib, Ic, I_high, V_high, V_high_filt, calls>>]_vars

\* C9 witness: the background tasks have changed the mode, the amplitude, the
\* frequency and the LED while the stage was enabled.
C9_Witness ==
    /\ power_enable
    /\ mode = IDLE_MODE
    /\ duty_amplitude # 0
    /\ v_freq # v_freq_init
    /\ ~led

\* C10: the duty cycles a POWER cycle passes to setDutyCycle are
\* duty_offset + duty_amplitude, with the amplitude it read.
C10_DutyDispatched ==
    (HasRun /\ cycle.mode = POWER_MODE) =>
        /\ Cardinality(CycleDuties) = Len(Legs)
        /\ \A i \in CycleDuties :
              cycle.calls[i][3] = duty_offset + cycle.amplitude

\* C10 witness: a POWER cycle has dispatched a negative duty cycle, after a
\* POWER cycle with another amplitude.
C10_Witness ==
    /\ Len(sampled) >= 2
    /\ sampled[Len(sampled) - 1] = POWER_MODE
    /\ cycle.mode = POWER_MODE
    /\ cycle.enabled_before
    /\ cycle.amplitude < 0
    /\ cycle.calls[1] = SetDuty(Legs[1], duty_offset - duty_increment)

\* C11: at 50 Hz with a period of 100 us, one cycle advances the angle by
\* 1/200 of a revolution, and the angle is back at its starting value after
\* 200 cycles, and not before.
C11_FullRevolution ==
    /\ v_freq = 50
    /\ T_control_micro = 100
    /\ Len(sampled) = 1 => 200 * ((v_angle - angle_start) % TWO_PI) = TWO_PI
    /\ Len(sampled) = 200 => v_angle = angle_start
    /\ Len(sampled) \in 1..199 => v_angle # angle_start

\* C11 witness: 200 cycles from an angle just under 2*pi.
C11_Witness ==
    /\ Len(sampled) = 200
    /\ angle_start = TWO_PI - 1
    /\ v_angle = angle_start

\* C12: the mode is always IDLE_MODE or POWER_MODE; in every state the key
\* 'i' can be processed and leaves the mode IDLE_MODE, the key 'p' can be
\* processed and leaves the mode POWER_MODE, and processing any other key
\* leaves the mode as it was.
C12_ModeRequests ==
    /\ mode \in {IDLE_MODE, POWER_MODE}
    /\ ENABLED (KeyPress("i") /\ mode' = IDLE_MODE)
    /\ ENABLED (KeyPress("p") /\ mode' = POWER_MODE)
    /\ ~ENABLED (KeyPress("i") /\ mode' # IDLE_MODE)
    /\ ~ENABLED (KeyPress("p") /\ mode' # POWER_MODE)
    /\ \A c \in Keys \ {"i", "p"} :
           /\ ENABLED KeyPress(c)
           /\ ~ENABLED (KeyPress(c) /\ mode' # mode)

\* C12 witness: 'p' has been processed with the stage stopped and the
\* amplitude negative.
C12_Witness ==
    /\ mode = POWER_MODE
    /\ ~power_enable
    /\ Count(calls, Stop) >= 1
    /\ duty_amplitude < 0

\* C13: the phase angle is the wrapped sum of one increment per control
\* cycle run so far, IDLE and POWER cycles alike, whatever keys were
\* processed and whatever start and stop calls were made in between; with
\* the frequency at 50 Hz or more it is at least 50 increments per cycle.
C13_AngleFreeRunning ==
    /\ v_angle = ot_modulo_2pi(unwrapped)
    /\ v_angle >= Len(sampled) * v_freq_init

\* C13 witness: the stage is started in the third cycle, after two IDLE
\* cycles, and the angle then stands at three increments.
C13_Witness ==
    /\ sampled = <<IDLE_MODE, IDLE_MODE, POWER_MODE>>
    /\ Count(calls, Start) = 1
    /\ v_freq = v_freq_init
    /\ v_angle = 3 * v_freq_init

\* C14: every control cycle advances the filter by exactly one step fed with
\* the raw V_high as stored after the hold-last-value update, so a cycle
\* whose V_HIGH sample is missing feeds the held value again; the stored raw
\* V_high is the new sample or the held value and is not written by the
\* filter step; outside control cycles neither value changes.
C14_FilterEveryCycle ==
    [][/\ sampled' # sampled =>
            /\ V_high_filt' = calculateWithReturn(V_high_filt, V_high')
            /\ V_high' = IF cycle'.ret["V_HIGH"] = NO_VALUE
                          THEN V_high
                          ELSE cycle'.ret["V_HIGH"]
       /\ sampled' = sampled => UNCHANGED <<V_high, V_high_filt>>]_vars

\* C14 witness: a sample, then a cycle without one: the filter has moved
\* two steps towards the held value.
C14_Witness ==
    /\ Len(sampled) = 2
    /\ cycle.ret["V_HIGH"] = NO_VALUE
    /\ V_high = 2 * SAMPLE_LSB
    /\ V_high_filt = calculateWithReturn(calculateWithReturn(0, V_high), V_high)
    /\ V_high_filt # calculateWithReturn(0, V_high)

\* C15: once a control cycle has run, power_enable is true exactly when the
\* mode read by the latest cycle was POWER_MODE, and the power stage (the last
\* of its start/stop calls) is running exactly then: whatever was requested
\* before a cycle is in force when that cycle ends.
C15_EnableFollowsMode ==
    HasRun =>
        /\ cycle.mode = sampled[Len(sampled)]
        /\ cycle.enabled_after <=> cycle.mode = POWER_MODE
        /\ power_enable <=> cycle.enabled_after
        /\ power_enable <=>
              /\ StartStops # <<>>
              /\ StartStops[Len(StartStops)] = Start

\* C15 witness: POWER, IDLE and POWER again were read by three cycles, the
\* stage is enabled, and a request for IDLE waits for the next cycle.
C15_Witness ==
    /\ sampled = <<POWER_MODE, IDLE_MODE, POWER_MODE>>
    /\ power_enable
    /\ ~cycle.enabled_before
    /\ mode = IDLE_MODE

\* C16: with the control task running at any point of an update, the
\* amplitude is duty_increment times the net number of 'u' keys processed
\* and the frequency is 50 Hz plus freq_increment times the net number of
\* 'f' keys processed: no update is lost or applied twice.
C16_NoLostUpdate ==
    /\ duty_amplitude = duty_increment * processed.amp
    /\ v_freq = 50 + freq_increment * processed.freq

\* C16 witness: the latest control cycle ran between the load and the store
\* of a 'u' update and computed the duties from the old amplitude; the
\* update has since been stored.
C16_Witness ==
    /\ HasRun
    /\ cycle.preempted = "u"
    /\ ui = UiIdle
    /\ processed.amp = 1
    /\ cycle.amplitude = 0
    /\ duty_amplitude = duty_increment

\* C17: the three duty cycles are equal, and after a control cycle they are
\* the one value computed from the amplitude that cycle read; every duty
\* cycle a POWER cycle sets on a leg is that value, at whatever point of an
\* amplitude update the cycle ran.
C17_EqualLegs ==
    /\ duty_a = duty_b
    /\ duty_b = duty_c
    /\ HasRun =>
          /\ duty_a = duty_offset + cycle.amplitude
          /\ \A i \in CycleDuties : cycle.calls[i][3] = duty_a
          /\ cycle.mode = POWER_MODE =>
                {cycle.calls[i][2] : i \in CycleDuties} = {"LEG1", "LEG2", "LEG3"}

\* C17 witness: a POWER cycle ran between the load and the store of a 'j'
\* update and set the three legs to the amplitude not yet lowered.
C17_Witness ==
    /\ HasRun
    /\ cycle.mode = POWER_MODE
    /\ cycle.preempted = "j"
    /\ cycle.amplitude = duty_increment
    /\ \A i \in CycleDuties : cycle.calls[i][3] = duty_increment
    /\ duty_c = duty_increment

\* The setup calls that create or start a task.
IsTaskCall(c) ==
    c \notin {"led.turnOn", "initBuck", "enableDefaultOwnverterSensors"}

\* C18: initBuck is called at most once, and once when setup is over; the
\* calls that create or start a task come after initBuck and after the
\* sensors are enabled; startCritical comes after both startBackground calls;
\* and the power stage has received no call, and no control cycle has run,
\* unless initBuck has been called.
C18_InitBeforeTasks ==
    /\ Count(boot, "initBuck") <= 1
    /\ Len(boot) = 9 => Count(boot, "initBuck") = 1
    /\ \A i \in 1..Len(boot) :
          IsTaskCall(boot[i]) =>
              /\ \E j \in 1..(i - 1) : boot[j] = "initBuck"
              /\ \E j \in 1..(i - 1) : boot[j] = "enableDefaultOwnverterSensors"
    /\ \A i \in 1..Len(boot) :
          boot[i] = "startCritical" =>
              /\ \E j \in 1..(i - 1) :
                    boot[j] = "startBackground(status_display_task)"
              /\ \E j \in 1..(i - 1) :
                    boot[j] = "startBackground(user_interface_task)"
    /\ (calls # <<>> \/ HasRun) =>
          /\ Called("initBuck")
          /\ Called("startCritical")

\* C18 witness: setup is over, with its nine calls, and the power stage has
\* since been started.
C18_Witness ==
    /\ Len(boot) = 9
    /\ boot[2] = "initBuck"
    /\ boot[9] = "startCritical"
    /\ Count(calls, Start) >= 1

====
